---- MODULE Spec2Model ----
(***************************************************************************)
(* Model of input/logstream/filehandling.go: parsing of log file names     *)
(* into sortable scores, the priority comparator, and the grouping of      *)
(* files into logical streams.                                             *)
(*                                                                         *)
(* Go strings are modelled as sequences of one-character strings, so that  *)
(* lower-casing, the digit test, decimal conversion, prefix stripping and  *)
(* concatenation are computed character by character.                      *)
(***************************************************************************)
EXTENDS Integers, Sequences, FiniteSets, TLC

\* ------------------------------------------------------------------------
\* Bounds of the model
\* ------------------------------------------------------------------------

\* Longest directory walk (number of entries visited by one scan).
MaxWalk == 3

\* ------------------------------------------------------------------------
\* Strings and maps
\* ------------------------------------------------------------------------

\* A Go map literal given as a set of <<key, value>> pairs.
MapOf(pairs) ==
    [k \in {p[1] : p \in pairs} |-> (CHOOSE p \in pairs : p[1] = k)[2]]

\* The empty (or nil) Go map: reading it finds no key.
EmptyMap == <<>>

\* m[k] = v on a Go map.
MapPut(m, k, v) ==
    [x \in (DOMAIN m) \cup {k} |-> IF x = k THEN v ELSE m[x]]

UpperCase == <<"A", "B", "C", "D", "E", "F", "G", "H", "I", "J", "K", "L", "M", "N", "O", "P", "Q", "R", "S", "T", "U", "V", "W", "X", "Y", "Z">>

LowerCase == <<"a", "b", "c", "d", "e", "f", "g", "h", "i", "j", "k", "l", "m", "n", "o", "p", "q", "r", "s", "t", "u", "v", "w", "x", "y", "z">>

ToLowerChar(c) ==
    IF \E i \in 1..Len(UpperCase) : UpperCase[i] = c
    THEN LowerCase[CHOOSE i \in 1..Len(UpperCase) : UpperCase[i] = c]
    ELSE c

\* strings.ToLower
ToLower(s) == [i \in 1..Len(s) |-> ToLowerChar(s[i])]

DigitChars == <<"0", "1", "2", "3", "4", "5", "6", "7", "8", "9">>

IsDigit(c) == \E i \in 1..Len(DigitChars) : DigitChars[i] = c

DigitVal(c) == (CHOOSE i \in 1..Len(DigitChars) : DigitChars[i] = c) - 1

\* digitRegex.MatchString: ^\d+$ wants one or more characters, all digits.
DigitRegexMatch(s) == Len(s) > 0 /\ \A i \in 1..Len(s) : IsDigit(s[i])

\* Width of the Go int that holds a score.  Go's int has 32 or 64 bits
\* depending on the build; the model takes the 32-bit build.
IntSize == 32

MaxInt == (2^(IntSize - 2) - 1) * 2 + 1

RECURSIVE ParseDigits(_, _, _)
\* Accumulate the decimal value of s from position i on; a value that does
\* not fit yields the range error, whose value is the largest int.
ParseDigits(s, i, n) ==
    IF i > Len(s) THEN n
    ELSE LET d == DigitVal(s[i])
         IN  IF n > (MaxInt - d) \div 10
             THEN MaxInt
             ELSE ParseDigits(s, i + 1, n * 10 + d)

\* The value strconv.Atoi returns for a string of digits (its error is
\* dropped by the caller).
Atoi(s) == ParseDigits(s, 1, 0)

\* ------------------------------------------------------------------------
\* Built-in translation tables
\* ------------------------------------------------------------------------

MonthLookup ==
    MapOf({
        <<<<"j", "a", "n", "u", "a", "r", "y">>, 1>>,
        <<<<"j", "a", "n">>, 1>>,
        <<<<"f", "e", "b", "r", "u", "a", "r", "y">>, 2>>,
        <<<<"f", "e", "b">>, 2>>,
        <<<<"m", "a", "r", "c", "h">>, 3>>,
        <<<<"m", "a", "r">>, 3>>,
        <<<<"a", "p", "r", "i", "l">>, 4>>,
        <<<<"a", "p", "r">>, 4>>,
        <<<<"m", "a", "y">>, 5>>,
        <<<<"j", "u", "n", "e">>, 6>>,
        <<<<"j", "u", "n">>, 6>>,
        <<<<"j", "u", "l", "y">>, 7>>,
        <<<<"j", "u", "l">>, 7>>,
        <<<<"a", "u", "g", "u", "s", "t">>, 8>>,
        <<<<"a", "u", "g">>, 8>>,
        <<<<"s", "e", "p", "t", "e", "m", "b", "e", "r">>, 9>>,
        <<<<"s", "e", "p">>, 9>>,
        <<<<"o", "c", "t", "o", "b", "e", "r">>, 10>>,
        <<<<"o", "c", "t">>, 10>>,
        <<<<"n", "o", "v", "e", "m", "b", "e", "r">>, 11>>,
        <<<<"n", "o", "v">>, 11>>,
        <<<<"d", "e", "c", "e", "m", "b", "e", "r">>, 12>>,
        <<<<"d", "e", "c">>, 12>>})

DayLookup ==
    MapOf({
        <<<<"m", "o", "n", "d", "a", "y">>, 0>>,
        <<<<"m", "o", "n">>, 0>>,
        <<<<"t", "u", "e", "s", "d", "a", "y">>, 1>>,
        <<<<"t", "u", "e">>, 1>>,
        <<<<"w", "e", "d", "n", "e", "s", "d", "a", "y">>, 2>>,
        <<<<"w", "e", "d">>, 2>>,
        <<<<"t", "h", "u", "r", "s", "d", "a", "y">>, 3>>,
        <<<<"t", "h", "u">>, 3>>,
        <<<<"f", "r", "i", "d", "a", "y">>, 4>>,
        <<<<"f", "r", "i">>, 4>>,
        <<<<"s", "a", "t", "u", "r", "d", "a", "y">>, 5>>,
        <<<<"s", "a", "t">>, 5>>,
        <<<<"s", "u", "n", "d", "a", "y">>, 6>>,
        <<<<"s", "u", "n">>, 6>>})

\* ------------------------------------------------------------------------
\* Errors
\* ------------------------------------------------------------------------

\* The nil error.
NoError == [isErr |-> FALSE, msg |-> <<>>]

\* errors.New(text): text is kept as the tuple of its concatenated pieces.
NewError(text) == [isErr |-> TRUE, msg |-> text]

\* NewMultipleError
NewMultipleError == <<>>

AddMessage_Overwrite(m, s) == <<s>>

\* MultipleError.AddMessage
AddMessage(m, s) == Append(m, s)

\* MultipleError.IsError
IsError(m) == Len(m) > 0

\* ------------------------------------------------------------------------
\* Capture names used by the patterns of the model
\* ------------------------------------------------------------------------

Unnamed == <<>>

MonthName == <<"M", "o", "n", "t", "h", "N", "a", "m", "e">>

DayName == <<"D", "a", "y", "N", "a", "m", "e">>

Year == <<"Y", "e", "a", "r">>

Day == <<"D", "a", "y">>

SeqKey == <<"S", "e", "q">>

Host == <<"H", "o", "s", "t">>

Level == <<"L", "e", "v", "e", "l">>

\* ------------------------------------------------------------------------
\* Logfile
\* ------------------------------------------------------------------------

\* &Logfile{FileName: path}: both maps are still nil.
NewLogfile(path) ==
    [FileName |-> path, MatchParts |-> EmptyMap, StringMatchParts |-> EmptyMap]

\* The result of the score computation of one named slot: the score, or the
\* error of a failed lookup.
Scored(n) == [err |-> NoError, score |-> n]

Failed(text) == [err |-> NewError(text), score |-> -1]

\* The if-chain of Logfile.PopulateMatchParts for a slot with a name.
ScoreOf(name, matchValue, translation) ==
    LET lowerValue == ToLower(matchValue)
    IN  IF name = MonthName
        THEN IF lowerValue \in DOMAIN MonthLookup
             THEN Scored(MonthLookup[lowerValue])
             ELSE Failed(<<"Unable to locate month name: ", matchValue>>)
        ELSE IF name = DayName
        THEN IF lowerValue \in DOMAIN DayLookup
             THEN Scored(DayLookup[lowerValue])
             ELSE Failed(<<"Unable to locate day name : ", matchValue>>)
        ELSE IF name \in DOMAIN translation
        THEN IF matchValue \in DOMAIN translation[name]
             THEN Scored(translation[name][matchValue])
             ELSE Failed(<<"Unable to locate value: (", matchValue,
                           ") in translation map: ", name>>)
        ELSE IF DigitRegexMatch(matchValue)
        THEN Scored(Atoi(matchValue))
        ELSE Scored(-1)

RECURSIVE PopulateSlots(_, _, _, _, _)

\* The loop with "continue" in place of the three "return" statements: a
\* failed slot is skipped and the first error is reported at the end.
PopulateSlots_KeepGoing(l, subexpNames, matches, translation, i) ==
    IF i > Len(subexpNames) THEN [file |-> l, err |-> NoError]
    ELSE LET name == subexpNames[i]
             matchValue == matches[i]
             stored == [l EXCEPT !.StringMatchParts =
                                    MapPut(@, name, matchValue)]
         IN  IF name = Unnamed
             THEN PopulateSlots(stored, subexpNames, matches, translation, i + 1)
             ELSE LET s == ScoreOf(name, matchValue, translation)
                      rest == PopulateSlots(
                                 IF s.err.isErr THEN stored
                                 ELSE [stored EXCEPT !.MatchParts =
                                          MapPut(@, name, s.score)],
                                 subexpNames, matches, translation, i + 1)
                  IN  IF s.err.isErr
                      THEN [file |-> rest.file, err |-> s.err]
                      ELSE rest

\* The loop with the raw value stored after the score instead of before it.
PopulateSlots_StoreLate(l, subexpNames, matches, translation, i) ==
    IF i > Len(subexpNames) THEN [file |-> l, err |-> NoError]
    ELSE LET name == subexpNames[i]
             matchValue == matches[i]
             stored == [l EXCEPT !.StringMatchParts =
                                    MapPut(@, name, matchValue)]
         IN  IF name = Unnamed
             THEN PopulateSlots(stored, subexpNames, matches, translation, i + 1)
             ELSE LET s == ScoreOf(name, matchValue, translation)
                  IN  IF s.err.isErr
                      THEN [file |-> l, err |-> s.err]
                      ELSE PopulateSlots(
                              [stored EXCEPT !.MatchParts =
                                  MapPut(@, name, s.score)],
                              subexpNames, matches, translation, i + 1)

\* The loop of Logfile.PopulateMatchParts from slot i on: the file as the
\* call leaves it, and the error the call returns.
PopulateSlots(l, subexpNames, matches, translation, i) ==
    IF i > Len(subexpNames) THEN [file |-> l, err |-> NoError]
    ELSE LET name == subexpNames[i]
             matchValue == matches[i]
             stored == [l EXCEPT !.StringMatchParts =
                                    MapPut(@, name, matchValue)]
         IN  IF name = Unnamed
             THEN PopulateSlots(stored, subexpNames, matches, translation, i + 1)
             ELSE LET s == ScoreOf(name, matchValue, translation)
                  IN  IF s.err.isErr
                      THEN [file |-> stored, err |-> s.err]
                      ELSE PopulateSlots(
                              [stored EXCEPT !.MatchParts =
                                  MapPut(@, name, s.score)],
                              subexpNames, matches, translation, i + 1)

\* Logfile.PopulateMatchParts
LogfilePopulateMatchParts(l, subexpNames, matches, translation) ==
    PopulateSlots(l, subexpNames, matches, translation, 1)

\* ------------------------------------------------------------------------
\* File name patterns (regexp.Regexp values)
\* ------------------------------------------------------------------------

\* A pattern is named by an identifier; Groups gives its capture groups in
\* order, each with its name and the class of text it matches: "d" is \d+,
\* "d4" is \d{4}, "w" is \w+.  A path is kept as the tuple of the texts of
\* the groups.
\*   "date":  (?P<Year>\d{4})/(?P<MonthName>\w+)/(?P<Day>\d+)/\w+-(?P<Seq>\d+).log
\*   "cal":   (?P<MonthName>\w+)/(?P<DayName>\w+)/(\w+)-(?P<Seq>\w+).log
\*   "level": (?P<Level>\w+)-(?P<Seq>\d+).log
\*   "host":  (?P<Host>\w+)-(?P<Seq>\d+).log
Groups(re) ==
    CASE re = "date" -> << [name |-> Year, class |-> "d4"],
                           [name |-> MonthName, class |-> "w"],
                           [name |-> Day, class |-> "d"],
                           [name |-> SeqKey, class |-> "d"] >>
      [] re = "cal" -> << [name |-> MonthName, class |-> "w"],
                          [name |-> DayName, class |-> "w"],
                          [name |-> Unnamed, class |-> "w"],
                          [name |-> SeqKey, class |-> "w"] >>
      [] re = "level" -> << [name |-> Level, class |-> "w"],
                            [name |-> SeqKey, class |-> "d"] >>
      [] re = "host" -> << [name |-> Host, class |-> "w"],
                           [name |-> SeqKey, class |-> "d"] >>

\* Regexp.SubexpNames: slot 0 is the whole match and has the empty name.
SubexpNames(re) ==
    <<Unnamed>> \o [i \in 1..Len(Groups(re)) |-> Groups(re)[i].name]

IsWordChar(c) ==
    \/ IsDigit(c)
    \/ c = "_"
    \/ \E i \in 1..Len(UpperCase) : UpperCase[i] = c \/ LowerCase[i] = c

ClassMatch(class, s) ==
    CASE class = "d" -> DigitRegexMatch(s)
      [] class = "d4" -> DigitRegexMatch(s) /\ Len(s) = 4
      [] class = "w" -> Len(s) > 0 /\ \A i \in 1..Len(s) : IsWordChar(s[i])

\* Regexp.MatchString
MatchString(re, path) ==
    /\ Len(path) = Len(Groups(re))
    /\ \A i \in 1..Len(path) : ClassMatch(Groups(re)[i].class, path[i])

RECURSIVE Concat(_)
\* The texts of a tuple of strings, joined.
Concat(parts) ==
    IF parts = <<>> THEN <<>> ELSE Head(parts) \o Concat(Tail(parts))

\* Regexp.FindStringSubmatch on a matching path: the whole match, then the
\* text of each group.
FindStringSubmatch(re, path) == <<Concat(path)>> \o path

RECURSIVE PopulateFiles(_, _, _, _, _, _, _)
\* The loop of Logfiles.PopulateMatchParts from file k on.  rets collects
\* what each call of Logfile.PopulateMatchParts returned.
PopulateFiles(l, re, subexpNames, translation, errorlist, rets, k) ==
    IF k > Len(l) THEN [files |-> l, errorlist |-> errorlist, rets |-> rets]
    ELSE LET r == LogfilePopulateMatchParts(l[k], subexpNames,
                                            FindStringSubmatch(re, l[k].FileName),
                                            translation)
         IN  PopulateFiles([l EXCEPT ![k] = r.file], re, subexpNames, translation,
                           IF r.err.isErr
                           THEN AddMessage(errorlist, r.err.msg)
                           ELSE errorlist,
                           Append(rets, r.err), k + 1)

\* ------------------------------------------------------------------------
\* Priority comparator and sort
\* ------------------------------------------------------------------------

\* m[k] read from a Go map of ints: a missing key reads as 0.
ScoreAt(m, k) == IF k \in DOMAIN m THEN m[k] ELSE 0

Convert_Identity(inverted, a) == a

\* The convert closure of ByPriority.Less: the identity, or the negation
\* for a key marked with "^".
Convert(inverted, a) == IF inverted THEN ~a ELSE a

RECURSIVE LessFrom(_, _, _, _)

\* The loop without its "else if ... >" branch: a greater score falls
\* through to the next key.
LessFrom_NoGreater(first, second, priority, k) ==
    IF k > Len(priority) THEN FALSE
    ELSE LET inverted == Head(priority[k]) = "^"
             part == IF inverted THEN Tail(priority[k]) ELSE priority[k]
         IN  IF ScoreAt(first.MatchParts, part) < ScoreAt(second.MatchParts, part)
             THEN Convert(inverted, TRUE)
             ELSE LessFrom(first, second, priority, k + 1)

\* The loop of ByPriority.Less from key k on.  part[:1] needs a non-empty
\* key: the keys of a priority list are capture names, possibly marked.
LessFrom(first, second, priority, k) ==
    IF k > Len(priority) THEN FALSE
    ELSE LET inverted == Head(priority[k]) = "^"
             part == IF inverted THEN Tail(priority[k]) ELSE priority[k]
         IN  IF ScoreAt(first.MatchParts, part) < ScoreAt(second.MatchParts, part)
             THEN Convert(inverted, TRUE)
             ELSE IF ScoreAt(first.MatchParts, part) > ScoreAt(second.MatchParts, part)
             THEN Convert(inverted, FALSE)
             ELSE LessFrom(first, second, priority, k + 1)

\* ByPriority.Less(i, j), indices from 1.
Less(l, priority, i, j) == LessFrom(l[i], l[j], priority, 1)

\* Logfiles.Len
LogfilesLen(l) == Len(l)

Swap_Copy(l, i, j) == [l EXCEPT ![i] = l[j]]

\* Logfiles.Swap
Swap(l, i, j) == [l EXCEPT ![i] = l[j], ![j] = l[i]]

RECURSIVE SiftDown(_, _, _)
\* sort.Sort on a short slice is an insertion sort driven by Less and Swap:
\* element j moves down while it is less than its predecessor.
SiftDown(l, priority, j) ==
    IF j > 1 /\ Less(l, priority, j, j - 1)
    THEN SiftDown(Swap(l, j, j - 1), priority, j - 1)
    ELSE l

RECURSIVE InsertionSort(_, _, _)
InsertionSort(l, priority, i) ==
    IF i > LogfilesLen(l) THEN l
    ELSE InsertionSort(SiftDown(l, priority, i), priority, i + 1)

\* sort.Sort(ByPriority{Logfiles: l, Priority: priority})
SortByPriority(l, priority) == InsertionSort(l, priority, 2)

\* ------------------------------------------------------------------------
\* Stream differentiator
\* ------------------------------------------------------------------------

ResolveToken_Literal(l, d) == d

\* One step of ResolveDifferentiatedName: the raw capture named d, or d.
ResolveToken(l, d) ==
    IF d \in DOMAIN l.StringMatchParts THEN l.StringMatchParts[d] ELSE d

RECURSIVE ResolveFrom(_, _, _, _)
ResolveFrom(l, differentiator, name, k) ==
    IF k > Len(differentiator) THEN name
    ELSE ResolveFrom(l, differentiator,
                     name \o ResolveToken(l, differentiator[k]), k + 1)

\* ResolveDifferentiatedName
ResolveDifferentiatedName(l, differentiator) ==
    ResolveFrom(l, differentiator, <<>>, 1)

GroupAdd_Overwrite(groups, name, logfile) == MapPut(groups, name, <<logfile>>)

\* The body of the loop of FilterMultipleStreamFiles: make the group if it
\* is new, then append the file to it.
GroupAdd(groups, name, logfile) ==
    LET made == IF name \in DOMAIN groups THEN groups
                ELSE MapPut(groups, name, <<>>)
    IN  MapPut(made, name, Append(made[name], logfile))

RECURSIVE FilterFrom(_, _, _, _)
FilterFrom(l, differentiator, groups, k) ==
    IF k > Len(l) THEN groups
    ELSE FilterFrom(l, differentiator,
                    GroupAdd(groups,
                             ResolveDifferentiatedName(l[k], differentiator),
                             l[k]),
                    k + 1)

\* FilterMultipleStreamFiles
FilterMultipleStreamFiles(l, differentiator) ==
    FilterFrom(l, differentiator, EmptyMap, 1)

\* ------------------------------------------------------------------------
\* Directory trees, translation tables, priorities and differentiators the
\* model draws its inputs from
\* ------------------------------------------------------------------------

File(path) == [path |-> path, isDir |-> FALSE, err |-> FALSE]

Dir(path) == [path |-> path, isDir |-> TRUE, err |-> FALSE]

Unreadable(path) == [path |-> path, isDir |-> FALSE, err |-> TRUE]

\* The entries a walk may meet under each pattern: matching files, one
\* directory whose path matches, one unreadable entry and one file whose
\* path does not match.
Tree(re) ==
    CASE re = "date" ->
           { File(<<<<"2", "0", "1", "3">>, <<"A", "u", "g", "u", "s", "t">>, <<"0", "8">>, <<"1", "1">>>>),
             File(<<<<"2", "0", "1", "3">>, <<"A", "u", "g", "u", "s", "t">>, <<"0", "8">>, <<"2">>>>),
             File(<<<<"2", "0", "1", "3">>, <<"A", "u", "g", "u", "s", "t">>, <<"9">>, <<"2">>>>),
             File(<<<<"2", "0", "1", "3">>, <<"s", "e", "p">>, <<"0", "8">>, <<"2">>>>),
             File(<<<<"2", "0", "1", "4">>, <<"j", "a", "n">>, <<"0", "8">>, <<"1", "1">>>>),
             File(<<<<"2", "0", "1", "2">>, <<"D", "e", "c">>, <<"3", "1">>, <<"0">>>>),
             File(<<<<"2", "0", "1", "3">>, <<"f", "o", "o">>, <<"0", "8">>, <<"2">>>>),
             Dir(<<<<"2", "0", "1", "3">>, <<"A", "u", "g", "u", "s", "t">>, <<"0", "8">>, <<"3">>>>),
             Unreadable(<<<<"2", "0", "1", "3">>, <<"A", "u", "g", "u", "s", "t">>, <<"0", "8">>, <<"4">>>>),
             File(<<<<"1", "3">>, <<"A", "u", "g", "u", "s", "t">>, <<"0", "8">>, <<"5">>>>) }
      [] re = "cal" ->
           { File(<<<<"A", "u", "g">>, <<"M", "O", "N">>, <<"u">>, <<"0", "0", "7">>>>),
             File(<<<<"x", "y", "z">>, <<"M", "O", "N">>, <<"u">>, <<"1">>>>),
             File(<<<<"A", "u", "g">>, <<"8">>, <<"u">>, <<"1">>>>),
             File(<<<<"s", "e", "p">>, <<"s", "u", "n">>, <<"v">>, <<"x", "1">>>>),
             File(<<<<"A", "u", "g">>, <<"M", "O", "N">>, <<"u">>, <<"2", "1", "4", "7", "4", "8", "3", "6", "4", "8">>>>),
             File(<<<<"D", "E", "C">>, <<"F", "r", "i">>, <<"u">>, <<"2", "1", "4", "7", "4", "8", "3", "6", "4", "7">>>>),
             File(<<<<"M", "a", "y">>, <<"t", "u", "e">>, <<"u">>, <<"9", "9", "9", "9", "9", "9", "9", "9", "9", "9", "9">>>>),
             Dir(<<<<"A", "u", "g">>, <<"M", "O", "N">>, <<"u">>, <<"3">>>>),
             Unreadable(<<<<"A", "u", "g">>, <<"M", "O", "N">>, <<"u">>, <<"4">>>>),
             File(<<<<"A", "u", "g">>, <<"M", "O", "N">>, <<"u">>, <<"-", "5">>>>) }
      [] re = "level" ->
           { File(<<<<"h", "i">>, <<"1", "2">>>>),
             File(<<<<"H", "i">>, <<"1", "2">>>>),
             File(<<<<"7">>, <<"3">>>>),
             File(<<<<"l", "o">>, <<"0", "0">>>>),
             File(<<<<"4", "2">>, <<"4", "2", "9", "4", "9", "6", "7", "2", "9", "6">>>>),
             Dir(<<<<"h", "i">>, <<"3">>>>),
             Unreadable(<<<<"h", "i">>, <<"4">>>>),
             File(<<<<"h", "i">>, <<"x">>>>) }
      [] re = "host" ->
           { File(<<<<"a">>, <<"1">>>>),
             File(<<<<"a">>, <<"2">>>>),
             File(<<<<"b">>, <<"1">>>>),
             File(<<<<"a", "1">>, <<"1">>>>),
             File(<<<<"a">>, <<"1", "1">>>>),
             File(<<<<"b">>, <<"2">>>>),
             Dir(<<<<"a">>, <<"3">>>>),
             Unreadable(<<<<"a">>, <<"4">>>>),
             File(<<<<"a">>, <<"x">>>>) }

NoTranslation == EmptyMap

LevelTranslation ==
    MapOf({ <<Level, MapOf({ <<<<"h", "i">>, 3>>, <<<<"7">>, 1>> })>> })

CalTranslation ==
    MapOf({ <<MonthName, MapOf({ <<<<"x", "y", "z">>, 5>>, <<<<"A", "u", "g">>, 99>> })>>,
            <<DayName, MapOf({ <<<<"8">>, 2>> })>>,
            <<SeqKey, MapOf({ <<<<"x", "1">>, 4>>, <<<<"1">>, 10>> })>> })

HostTranslation ==
    MapOf({ <<Host, MapOf({ <<<<"a">>, 1>>, <<<<"a", "1">>, 2>> })>> })

Desc(key) == <<"^">> \o key

\* The priority list of the documentation of SortPattern.
DatePriority == <<Year, MonthName, Day, Desc(SeqKey)>>

Priorities ==
    { DatePriority,
      <<Desc(Year), SeqKey>>,
      <<SeqKey, Desc(SeqKey), Day>>,
      <<Host, Desc(MonthName), Day>>,
      <<Desc(Day), Desc(SeqKey), Year>>,
      <<<<"^">>, MonthName>>,
      <<>> }

Differentiators ==
    { <<Host>>,
      <<Host, SeqKey>>,
      <<SeqKey, <<"-">>, Host>>,
      <<<<"x">>>>,
      <<<<"x">>, <<"y">>>>,
      <<Year, <<"a">>>>,
      <<Unnamed>>,
      <<>> }

RECURSIVE Walks(_, _)
\* The walks of at most n entries of a tree, each entry visited once.
Walks(tree, n) ==
    IF n = 0 THEN {<<>>}
    ELSE LET shorter == Walks(tree, n - 1)
         IN  shorter \cup
             { Append(w, e) : w \in shorter,
                              e \in tree }

NoRepeat(w) == \A i, j \in 1..Len(w) : w[i] = w[j] => i = j

\* ------------------------------------------------------------------------
\* State
\* ------------------------------------------------------------------------

VARIABLES
    fileMatch,       \* SortPattern.FileMatch, as a pattern identifier
    translation,     \* SortPattern.Translation
    Priority,        \* SortPattern.Priority
    Differentiator,  \* SortPattern.Differentiator
    files,           \* the Logfiles collection
    rets,            \* what Logfile.PopulateMatchParts returned, per file
    err,             \* what Logfiles.PopulateMatchParts returned
    lessRes,         \* the last call of ByPriority.Less and its result
    unsorted,        \* the collection as it was handed to the sort
    mfs,             \* the MultipleLogstreamFileList of the last grouping
    pc               \* the stage of the pipeline

vars == <<fileMatch, translation, Priority, Differentiator, files, rets, err,
          lessRes, unsorted, mfs, pc>>

config == <<fileMatch, translation, Priority, Differentiator>>

InitRest ==
    /\ files = <<>>
    /\ rets = <<>>
    /\ err = NoError
    /\ lessRes = [i |-> 0, j |-> 0, result |-> FALSE]
    /\ unsorted = <<>>
    /\ mfs = EmptyMap
    /\ pc = "init"

\* Parsing: the calendar and translation patterns under each table.
Init ==
    /\ fileMatch \in {"cal", "level"}
    /\ translation \in {NoTranslation, LevelTranslation, CalTranslation}
    /\ Priority = <<MonthName, Desc(SeqKey)>>
    /\ Differentiator = <<Level>>
    /\ InitRest

\* Ordering: the dated pattern under each priority list.
InitSort ==
    /\ fileMatch = "date"
    /\ translation = NoTranslation
    /\ Priority \in Priorities
    /\ Differentiator = <<Year>>
    /\ InitRest

\* Grouping: the host pattern under each differentiator.
InitGroup ==
    /\ fileMatch = "host"
    /\ translation \in {NoTranslation, HostTranslation}
    /\ Priority = <<SeqKey>>
    /\ Differentiator \in Differentiators
    /\ InitRest

\* ------------------------------------------------------------------------
\* Operations
\* ------------------------------------------------------------------------

RECURSIVE WalkFrom(_, _, _, _)
\* The callback of filepath.Walk applied to the entries of a walk in order.
WalkFrom(re, walk, found, k) ==
    IF k > Len(walk) THEN found
    ELSE LET info == walk[k]
         IN  IF info.err \/ info.isDir
             THEN WalkFrom(re, walk, found, k + 1)
             ELSE IF MatchString(re, info.path)
             THEN WalkFrom(re, walk, Append(found, NewLogfile(info.path)), k + 1)
             ELSE WalkFrom(re, walk, found, k + 1)

\* ScanDirectoryForLogfiles: the directory's content and the order of the
\* traversal are inputs.
ScanDirectoryForLogfiles ==
    /\ pc = "init"
    /\ \E walk \in Walks(Tree(fileMatch), MaxWalk) :
          /\ NoRepeat(walk)
          /\ files' = WalkFrom(fileMatch, walk, <<>>, 1)
    /\ pc' = "scanned"
    /\ UNCHANGED <<config, rets, err, lessRes, unsorted, mfs>>

\* Logfiles.PopulateMatchParts on the scanned collection.
LogfilesPopulateMatchParts ==
    /\ pc = "scanned"
    /\ LET r == PopulateFiles(files, fileMatch, SubexpNames(fileMatch),
                              translation, NewMultipleError, <<>>, 1)
       IN  /\ files' = r.files
           /\ rets' = r.rets
           /\ err' = IF IsError(r.errorlist)
                     THEN [isErr |-> TRUE, msg |-> r.errorlist]
                     ELSE NoError
    /\ pc' = "parsed"
    /\ UNCHANGED <<config, lessRes, unsorted, mfs>>

\* One call of ByPriority.Less on the parsed collection.
LessCall ==
    /\ pc = "parsed"
    /\ \E i, j \in 1..Len(files) :
          lessRes' = [i |-> i, j |-> j, result |-> Less(files, Priority, i, j)]
    /\ UNCHANGED <<config, files, rets, err, unsorted, mfs, pc>>

\* sort.Sort(ByPriority{...}) on the parsed collection, in place.
Sort ==
    /\ pc = "parsed"
    /\ unsorted' = files
    /\ files' = SortByPriority(files, Priority)
    /\ pc' = "sorted"
    /\ UNCHANGED <<config, rets, err, lessRes, mfs>>

\* FilterMultipleStreamFiles on the parsed collection.
Filter ==
    /\ pc = "parsed"
    /\ mfs' = FilterMultipleStreamFiles(files, Differentiator)
    /\ pc' = "grouped"
    /\ UNCHANGED <<config, files, rets, err, lessRes, unsorted>>

Next ==
    \/ ScanDirectoryForLogfiles
    \/ LogfilesPopulateMatchParts
    \/ LessCall
    \/ Sort
    \/ Filter

Spec == Init /\ [][Next]_vars

SpecSort == InitSort /\ [][Next]_vars

SpecGroup == InitGroup /\ [][Next]_vars

\* ------------------------------------------------------------------------
\* Vocabulary of the properties
\* ------------------------------------------------------------------------

Names == SubexpNames(fileMatch)

NamedNames == {Names[i] : i \in 1..Len(Names)} \ {Unnamed}

\* The submatches of the k-th file of a collection.
MatchesOf(l, k) == FindStringSubmatch(fileMatch, l[k].FileName)

\* Slot i of a file with submatches m has a name and its lookup has no entry.
SlotFails(m, i) ==
    LET n == Names[i]
        v == m[i]
    IN  \/ n = MonthName /\ ToLower(v) \notin DOMAIN MonthLookup
        \/ n = DayName /\ ToLower(v) \notin DOMAIN DayLookup
        \/ /\ n \notin {Unnamed, MonthName, DayName}
           /\ n \in DOMAIN translation
           /\ v \notin DOMAIN translation[n]

FileFails(m) == \E i \in 1..Len(Names) : SlotFails(m, i)

\* The first failing slot of a file that fails.
FirstFail(m) ==
    CHOOSE i \in 1..Len(Names) :
        SlotFails(m, i) /\ \A j \in 1..(i - 1) : ~SlotFails(m, j)

\* The last slot the parser visits.
LastVisited(m) == IF FileFails(m) THEN FirstFail(m) ELSE Len(Names)

\* The last slot up to slot "upto" that carries the name n.
LastSlotOf(n, upto) ==
    CHOOSE i \in 1..upto :
        Names[i] = n /\ \A j \in (i + 1)..upto : Names[j] # n

RECURSIVE Decimal(_)
\* The decimal digits of a natural number.
Decimal(n) ==
    IF n < 10 THEN <<DigitChars[n + 1]>>
    ELSE Append(Decimal(n \div 10), DigitChars[(n % 10) + 1])

RECURSIVE StripZeros(_)
\* A string of digits without its leading zeros ("000" gives "0").
StripZeros(v) ==
    IF Len(v) > 1 /\ Head(v) = "0" THEN StripZeros(Tail(v)) ELSE v

\* score is the integer that the digits v denote.
IsIntegerValue(v, score) == score >= 0 /\ Decimal(score) = StripZeros(v)

Parsed == pc = "parsed"

\* ------------------------------------------------------------------------
\* C1
\* ------------------------------------------------------------------------

FailingFiles == {k \in 1..Len(files) : FileFails(MatchesOf(files, k))}

\* C1: Logfiles.PopulateMatchParts attempts every one of the M files; with
\* N >= 1 failing files the returned error holds exactly N messages, one
\* per failing file in order and none for a succeeding file; with N = 0 it
\* returns nil; every succeeding file holds a score for every named slot,
\* the scores its own parse gives it.
C1_Aggregate ==
    Parsed =>
        LET N == Cardinality(FailingFiles)
        IN  /\ Len(rets) = Len(files)
            /\ \A k \in 1..Len(files) : rets[k].isErr <=> k \in FailingFiles
            /\ N = 0 => err = NoError
            /\ N >= 1 => /\ err.isErr
                         /\ Len(err.msg) = N
                         /\ \A k \in FailingFiles :
                               err.msg[Cardinality({f \in FailingFiles : f <= k})]
                                  = rets[k].msg
            /\ \A k \in (1..Len(files)) \ FailingFiles :
                  /\ DOMAIN files[k].MatchParts = NamedNames
                  /\ files[k] = LogfilePopulateMatchParts(
                                   NewLogfile(files[k].FileName), Names,
                                   MatchesOf(files, k), translation).file

\* Three files were parsed, the first two failed and the third succeeded.
C1_Witness ==
    /\ Parsed
    /\ Len(files) = 3
    /\ FailingFiles = {1, 2}
    /\ Len(err.msg) = 2
    /\ DOMAIN files[3].MatchParts = NamedNames

\* ------------------------------------------------------------------------
\* C2
\* ------------------------------------------------------------------------

\* C2 as stated: after Logfile.PopulateMatchParts returns, the file is
\* either fully parsed (no error, a score for every named slot) or carries
\* no score data at all (error, scoreParts and rawParts empty).
C2_AllOrNothing ==
    Parsed =>
        \A k \in 1..Len(files) :
            \/ ~rets[k].isErr /\ DOMAIN files[k].MatchParts = NamedNames
            \/ /\ rets[k].isErr
               /\ files[k].MatchParts = EmptyMap
               /\ files[k].StringMatchParts = EmptyMap

\* C2 amended: after Logfile.PopulateMatchParts returns, the file is either
\* fully parsed (no error, a score for every named slot) or an error was
\* returned at the first failing slot f and the file keeps the data parsed
\* so far: scoreParts holds the scores of exactly the named slots before f,
\* rawParts the raw values of the slots up to and including f.
C2_PartialOnError ==
    Parsed =>
        \A k \in 1..Len(files) :
            LET m == MatchesOf(files, k)
            IN  \/ /\ ~rets[k].isErr
                   /\ ~FileFails(m)
                   /\ DOMAIN files[k].MatchParts = NamedNames
                \/ /\ rets[k].isErr
                   /\ FileFails(m)
                   /\ DOMAIN files[k].MatchParts =
                         {Names[i] : i \in 1..(FirstFail(m) - 1)} \ {Unnamed}
                   /\ DOMAIN files[k].StringMatchParts =
                         {Names[i] : i \in 1..FirstFail(m)}
                   /\ files[k].StringMatchParts[Names[FirstFail(m)]] =
                         m[FirstFail(m)]

\* A file returned an error and keeps the score of an earlier slot.
C2_Witness ==
    /\ Parsed
    /\ \E k \in 1..Len(files) :
          /\ rets[k].isErr
          /\ files[k].MatchParts # EmptyMap
          /\ DOMAIN files[k].MatchParts # NamedNames

\* ------------------------------------------------------------------------
\* C3
\* ------------------------------------------------------------------------

\* C3 as stated: a lookup failure at slot i does not stop the slots after
\* i: rawParts[n_j] = v_j is stored for every slot j, so rawParts has an
\* entry for every capture name whether or not some slot failed.
C3_AllSlotsStored ==
    Parsed =>
        \A k \in 1..Len(files) :
            /\ DOMAIN files[k].StringMatchParts = {Names[i] : i \in 1..Len(Names)}
            /\ \A n \in DOMAIN files[k].StringMatchParts :
                  files[k].StringMatchParts[n] =
                     MatchesOf(files, k)[LastSlotOf(n, Len(Names))]

\* C3 amended: a lookup failure at slot i ends the call: the raw value v_j
\* is stored under rawParts[n_j] for every slot j up to and including i and
\* for no slot after i, so a name that only later slots carry has no entry;
\* when no slot fails rawParts has an entry for every capture name.
C3_StopsAtFailure ==
    Parsed =>
        \A k \in 1..Len(files) :
            LET m == MatchesOf(files, k)
                last == LastVisited(m)
            IN  /\ DOMAIN files[k].StringMatchParts =
                      {Names[i] : i \in 1..last}
                /\ \A n \in DOMAIN files[k].StringMatchParts :
                      files[k].StringMatchParts[n] = m[LastSlotOf(n, last)]

\* A file failed at a slot that is not the last, and a name of a later
\* slot has no raw entry.
C3_Witness ==
    /\ Parsed
    /\ \E k \in 1..Len(files) :
          LET m == MatchesOf(files, k)
          IN  /\ FileFails(m)
              /\ FirstFail(m) < Len(Names)
              /\ Names[Len(Names)] \notin DOMAIN files[k].StringMatchParts
              /\ Names[FirstFail(m)] \in DOMAIN files[k].StringMatchParts

\* ------------------------------------------------------------------------
\* C4 and C9
\* ------------------------------------------------------------------------

\* The rule of C4 for a named slot whose lookup does not fail: s is the
\* score of name n with raw value v.
RuleScore(n, v, s) ==
    IF n = MonthName THEN s = MonthLookup[ToLower(v)]
    ELSE IF n = DayName THEN s = DayLookup[ToLower(v)]
    ELSE IF n \in DOMAIN translation THEN s = translation[n][v]
    ELSE IF DigitRegexMatch(v) THEN IsIntegerValue(v, s)
    ELSE s = -1

\* C4: the score of every named slot follows the first applicable rule:
\* MonthName by the month table on lower(v), DayName by the day table on
\* lower(v), a name with a sub-table by v verbatim, an all-digit v by its
\* integer value, anything else -1; an error is returned exactly when a
\* lookup of the first three rules finds no entry.
C4_Precedence ==
    Parsed =>
        \A k \in 1..Len(files) :
            LET m == MatchesOf(files, k)
            IN  /\ rets[k].isErr <=> FileFails(m)
                /\ \A n \in DOMAIN files[k].MatchParts :
                      RuleScore(n, m[LastSlotOf(n, LastVisited(m))],
                                files[k].MatchParts[n])

\* The rule of C4 on the all-digit values that fit the int: apart from the
\* values beyond MaxInt the code follows the stated precedence.
PrecedenceWithinInt ==
    Parsed =>
        \A k \in 1..Len(files) :
            LET m == MatchesOf(files, k)
            IN  /\ rets[k].isErr <=> FileFails(m)
                /\ \A n \in DOMAIN files[k].MatchParts :
                      LET v == m[LastSlotOf(n, LastVisited(m))]
                      IN  \/ RuleScore(n, v, files[k].MatchParts[n])
                          \/ /\ n \notin {MonthName, DayName}
                             /\ n \notin DOMAIN translation
                             /\ DigitRegexMatch(v)
                             /\ ~IsIntegerValue(v, MaxInt)
                             /\ Len(StripZeros(v)) >= Len(Decimal(MaxInt))
                             /\ files[k].MatchParts[n] = MaxInt

\* C9: an all-digit raw value under a name that is neither MonthName nor
\* DayName and has no sub-table is scored with its integer value, also
\* when that value is beyond the range of the int.
C9_DigitsValue ==
    Parsed =>
        \A k \in 1..Len(files) :
            LET m == MatchesOf(files, k)
            IN  \A n \in DOMAIN files[k].MatchParts :
                   LET v == m[LastSlotOf(n, LastVisited(m))]
                   IN  (/\ n \notin {MonthName, DayName}
                        /\ n \notin DOMAIN translation
                        /\ DigitRegexMatch(v))
                       => IsIntegerValue(v, files[k].MatchParts[n])

\* ------------------------------------------------------------------------
\* C5
\* ------------------------------------------------------------------------

Descending(key) == Len(key) > 0 /\ key[1] = "^"

KeyName(key) == IF Descending(key) THEN SubSeq(key, 2, Len(key)) ELSE key

\* The score a file holds under a key, a missing score read as 0.
KeyScore(f, key) ==
    IF KeyName(key) \in DOMAIN f.MatchParts THEN f.MatchParts[KeyName(key)]
    ELSE 0

\* The positions of the priority list on which a and b differ.
Differing(a, b, priority) ==
    {k \in 1..Len(priority) : KeyScore(a, priority[k]) # KeyScore(b, priority[k])}

\* The lexicographic comparison over the priority list.
LexLess(a, b, priority) ==
    LET D == Differing(a, b, priority)
    IN  /\ D # {}
        /\ LET k == CHOOSE x \in D : \A y \in D : x <= y
           IN  IF Descending(priority[k])
               THEN KeyScore(a, priority[k]) > KeyScore(b, priority[k])
               ELSE KeyScore(a, priority[k]) < KeyScore(b, priority[k])

\* The scores of the records A and B of the example.
ScoresA ==
    MapOf({ <<Year, 2013>>, <<MonthName, 8>>, <<Day, 8>>, <<SeqKey, 11>> })

ScoresB ==
    MapOf({ <<Year, 2013>>, <<MonthName, 8>>, <<Day, 8>>, <<SeqKey, 2>> })

\* C5: ByPriority.Less(a, b) is the lexicographic comparison over the
\* priority list: the first key on which a and b differ (a missing score
\* read as 0) decides, by < for a plain key and by > for a key marked "^";
\* if no key differs the result is false.  For the records A and B of the
\* example under [Year, MonthName, Day, ^Seq], Less(A, B) is true and
\* Less(B, A) is false.
C5_Lexicographic ==
    Parsed =>
        /\ \A i, j \in 1..Len(files) :
              /\ Less(files, Priority, i, j) = LexLess(files[i], files[j], Priority)
              /\ (/\ Priority = DatePriority
                  /\ files[i].MatchParts = ScoresA
                  /\ files[j].MatchParts = ScoresB)
                 => Less(files, Priority, i, j) /\ ~Less(files, Priority, j, i)
        /\ lessRes.i > 0 =>
              lessRes.result =
                 LexLess(files[lessRes.i], files[lessRes.j], Priority)

\* Less was called on the records A and B of the example and returned true.
C5_Witness ==
    /\ Parsed
    /\ Priority = DatePriority
    /\ lessRes.i > 0
    /\ files[lessRes.i].MatchParts = ScoresA
    /\ files[lessRes.j].MatchParts = ScoresB
    /\ lessRes.result

\* ------------------------------------------------------------------------
\* C10
\* ------------------------------------------------------------------------

Lt(i, j) == Less(files, Priority, i, j)

Tied(i, j) == ~Lt(i, j) /\ ~Lt(j, i)

\* C10: under every priority list ByPriority.Less is a strict weak ordering
\* of the parsed files: irreflexive, asymmetric, transitive, and with a
\* transitive tie.
C10_StrictWeakOrder ==
    Parsed =>
        \A i, j, k \in 1..Len(files) :
            /\ ~Lt(i, i)
            /\ Lt(i, j) => ~Lt(j, i)
            /\ (Lt(i, j) /\ Lt(j, k)) => Lt(i, k)
            /\ (Tied(i, j) /\ Tied(j, k)) => Tied(i, k)

\* Three files, one of them without a score for the keys, under a list
\* that mixes a key no file holds, a descending key and an ascending key:
\* the three form a chain of two "less", and Less was called and said true.
C10_Witness ==
    /\ Parsed
    /\ Priority = <<Host, Desc(MonthName), Day>>
    /\ Len(files) = 3
    /\ \E i \in 1..3 : Day \notin DOMAIN files[i].MatchParts
    /\ \E i, j, k \in 1..3 : Lt(i, j) /\ Lt(j, k)
    /\ lessRes.i > 0
    /\ lessRes.result

\* ------------------------------------------------------------------------
\* C6
\* ------------------------------------------------------------------------

\* The date of a parsed file under the dated pattern.
DateOf(f) == <<f.MatchParts[Year], f.MatchParts[MonthName], f.MatchParts[Day]>>

\* Date d is before date e.
Before(d, e) ==
    \/ d[1] < e[1]
    \/ d[1] = e[1] /\ d[2] < e[2]
    \/ d[1] = e[1] /\ d[2] = e[2] /\ d[3] < e[3]

\* The files were all parsed and then sorted under the dated priority.
SortedByDate ==
    /\ pc = "sorted"
    /\ Priority = DatePriority
    /\ ~err.isErr
    /\ files # <<>>

IsPermutation(s, t) ==
    /\ Len(s) = Len(t)
    /\ \E p \in [1..Len(s) -> 1..Len(s)] :
          /\ \A i, j \in 1..Len(s) : p[i] = p[j] => i = j
          /\ \A i \in 1..Len(s) : s[i] = t[p[i]]

\* C6 as stated: after sorting parsed files by [Year, MonthName, Day, ^Seq]
\* the first element is the file with the latest date, and among the files
\* of that date the one with the highest Seq.
C6_LatestFirst ==
    SortedByDate =>
        \A k \in 1..Len(files) :
            /\ ~Before(DateOf(files[1]), DateOf(files[k]))
            /\ DateOf(files[k]) = DateOf(files[1])
                  => files[k].MatchParts[SeqKey] <= files[1].MatchParts[SeqKey]

\* C6 amended: after sorting parsed files by [Year, MonthName, Day, ^Seq]
\* the sequence holds the same files and its first element is the file
\* with the earliest date (least Year, then MonthName, then Day), and among
\* the files of that date the one with the highest Seq.
C6_EarliestFirst ==
    SortedByDate =>
        /\ IsPermutation(files, unsorted)
        /\ \A k \in 1..Len(files) :
              /\ ~Before(DateOf(files[k]), DateOf(files[1]))
              /\ DateOf(files[k]) = DateOf(files[1])
                    => files[k].MatchParts[SeqKey] <= files[1].MatchParts[SeqKey]

\* Three files were sorted, two of the earliest date with different Seq and
\* one of a later date, and the sort had to move the first file.
C6_Witness ==
    /\ SortedByDate
    /\ Len(files) = 3
    /\ DateOf(files[2]) = DateOf(files[1])
    /\ files[2].MatchParts[SeqKey] < files[1].MatchParts[SeqKey]
    /\ Before(DateOf(files[1]), DateOf(files[3]))
    /\ unsorted[1] = files[3]

\* ------------------------------------------------------------------------
\* C7
\* ------------------------------------------------------------------------

\* The identifier of a file: for each token in order its raw capture if the
\* file has one under that name, else the token itself, all joined.
Identifier(f) ==
    Concat([k \in 1..Len(Differentiator) |->
               IF Differentiator[k] \in DOMAIN f.StringMatchParts
               THEN f.StringMatchParts[Differentiator[k]]
               ELSE Differentiator[k]])

Grouped == pc = "grouped"

\* The places <<group, position>> where file i of the input occurs.
PlacesOf(i) ==
    {<<g, p>> \in UNION {{g} \X (1..Len(mfs[g])) : g \in DOMAIN mfs} :
        mfs[g][p] = files[i]}

\* The position in the input of the file at position p of group g.
InputIndex(g, p) == CHOOSE i \in 1..Len(files) : files[i] = mfs[g][p]

HostsOf(l) == [k \in 1..Len(l) |-> l[k].StringMatchParts[Host]]

\* C7: FilterMultipleStreamFiles partitions its input: every file is in
\* exactly one group exactly once, no group is empty, two files share a
\* group exactly when their identifiers are identical, and each group keeps
\* the order of the input.  Files with Host a, a, b under [Host] give two
\* groups, of sizes 2 and 1.
C7_Partition ==
    Grouped =>
        /\ \A i \in 1..Len(files) : Cardinality(PlacesOf(i)) = 1
        /\ \A g \in DOMAIN mfs :
              /\ Len(mfs[g]) > 0
              /\ \A p \in 1..Len(mfs[g]) :
                    /\ \E i \in 1..Len(files) : files[i] = mfs[g][p]
                    /\ Identifier(mfs[g][p]) = g
              /\ \A p, q \in 1..Len(mfs[g]) :
                    p < q => InputIndex(g, p) < InputIndex(g, q)
        /\ \A i, j \in 1..Len(files) :
              (\E g \in DOMAIN mfs : \E p, q \in 1..Len(mfs[g]) :
                   mfs[g][p] = files[i] /\ mfs[g][q] = files[j])
              <=> Identifier(files[i]) = Identifier(files[j])
        /\ (/\ Differentiator = <<Host>>
            /\ ~err.isErr
            /\ HostsOf(files) = <<<<"a">>, <<"a">>, <<"b">>>>)
           => /\ DOMAIN mfs = {<<"a">>, <<"b">>}
              /\ Len(mfs[<<"a">>]) = 2
              /\ Len(mfs[<<"b">>]) = 1

\* The files a-1, a-2, b-1 were grouped by [Host] into two groups.
C7_Witness ==
    /\ Grouped
    /\ Differentiator = <<Host>>
    /\ ~err.isErr
    /\ Len(files) = 3
    /\ HostsOf(files) = <<<<"a">>, <<"a">>, <<"b">>>>
    /\ Cardinality(DOMAIN mfs) = 2

\* ------------------------------------------------------------------------
\* C8
\* ------------------------------------------------------------------------

\* No token of the differentiator is a capture name of the pattern.
LiteralOnly ==
    \A k \in 1..Len(Differentiator) :
        \A i \in 1..Len(Names) : Differentiator[k] # Names[i]

\* C8 as stated: for every input list and every differentiator of literal
\* tokens only, the grouping yields exactly one group, keyed by the joined
\* tokens, and it holds all input files.
C8_OneGroup ==
    (Grouped /\ LiteralOnly) =>
        /\ DOMAIN mfs = {Concat(Differentiator)}
        /\ mfs[Concat(Differentiator)] = files

\* C8 amended: for every non-empty input list and every differentiator of
\* literal tokens only, the grouping yields exactly one group, keyed by the
\* joined tokens, and it holds all input files in input order; an empty
\* input list yields no group.
C8_OneGroupNonEmpty ==
    (Grouped /\ LiteralOnly) =>
        IF files = <<>>
        THEN DOMAIN mfs = {}
        ELSE /\ DOMAIN mfs = {Concat(Differentiator)}
             /\ mfs[Concat(Differentiator)] = files

\* Three files of two hosts were grouped by two literal tokens.
C8_Witness ==
    /\ Grouped
    /\ LiteralOnly
    /\ Differentiator = <<<<"x">>, <<"y">>>>
    /\ Len(files) = 3
    /\ \E i, j \in 1..3 :
          files[i].StringMatchParts[Host] # files[j].StringMatchParts[Host]
    /\ Cardinality(DOMAIN mfs) = 1
====
